---- MODULE Spec2Model ----
(***************************************************************************)
(* GitStatusWaybar: the status classifier, the batch scanner, the          *)
(* aggregator/tooltip formatter (lib/git_status_checker.py,                *)
(* scripts/git-monitor.py) and the GitMonitor refresh scheduler with its   *)
(* SIGUSR1 handler (scripts/git-monitor.py).                               *)
(*                                                                         *)
(* Python strings that the code inspects (paths, validation messages) are  *)
(* sequences of one-character strings, so that strip(), lower() and the    *)
(* substring test of check_repository are computed, not assumed.           *)
(***************************************************************************)
EXTENDS Integers, Sequences, FiniteSets, TLC

(***************************************************************************)
(* Bounds of the model.                                                    *)
(***************************************************************************)
MaxRepos == 3      \* longest result list handed to the aggregator / formatter
MaxPaths == 2      \* longest path list handed to the batch scanner
MaxTime == 10      \* the wall clock runs 0..MaxTime
MaxLong == 12      \* longest result list handed to the formatter around its tooltip limit
MaxProbeRuns == 3  \* most runs of one authentication probe's command
MaxAhead == 2      \* most commits the tracking branch is ahead of the local branch

(***************************************************************************)
(* Option values: None is the empty sequence, Some(x) a one-element one.   *)
(***************************************************************************)
None == << >>
Some(x) == << x >>

(***************************************************************************)
(* class RepoStatus(Enum), by value.                                       *)
(***************************************************************************)
CLEAN == "clean"
UNCOMMITTED == "uncommitted"
UNTRACKED == "untracked"
UNPUSHED == "unpushed"
UPSTREAM_AVAILABLE == "upstream_available"
ERROR == "error"
NOT_A_REPO == "not_a_repo"
MULTIPLE == "multiple"

\* list(RepoStatus): the members in definition order
RepoStatusList ==
    << CLEAN, UNCOMMITTED, UNTRACKED, UNPUSHED, UPSTREAM_AVAILABLE,
       ERROR, NOT_A_REPO, MULTIPLE >>

RepoStatus == { RepoStatusList[i] : i \in DOMAIN RepoStatusList }

\* the statuses check_repository can put into result["statuses"]
RawStatus == { UNCOMMITTED, UNTRACKED, UNPUSHED, UPSTREAM_AVAILABLE, ERROR, NOT_A_REPO }

\* priority_order of get_status_priority (highest first)
priority_order ==
    << ERROR, NOT_A_REPO, UNCOMMITTED, UNTRACKED, UNPUSHED, UPSTREAM_AVAILABLE, CLEAN >>

(***************************************************************************)
(* Sequence helpers.                                                       *)
(***************************************************************************)
Range(s) == { s[i] : i \in DOMAIN s }

\* list.index(x): the first position of x (x is known to occur)
IndexOf(s, x) == CHOOSE i \in DOMAIN s : s[i] = x /\ \A j \in 1..(i - 1) : s[j] # x

\* Python's `sub in s` on strings
Contains(s, sub) ==
    \E i \in 1..(Len(s) - Len(sub) + 1) : SubSeq(s, i, i + Len(sub) - 1) = sub

StartsWith(s, pre) == Len(s) >= Len(pre) /\ SubSeq(s, 1, Len(pre)) = pre

(***************************************************************************)
(* str.lower() and str.strip().                                            *)
(***************************************************************************)
UpperToLower ==
    [A |-> "a", B |-> "b", C |-> "c", D |-> "d", E |-> "e", F |-> "f", G |-> "g",
     H |-> "h", I |-> "i", J |-> "j", K |-> "k", L |-> "l", M |-> "m", N |-> "n",
     O |-> "o", P |-> "p", Q |-> "q", R |-> "r", S |-> "s", T |-> "t", U |-> "u",
     V |-> "v", W |-> "w", X |-> "x", Y |-> "y", Z |-> "z"]

LowerChar(c) == IF c \in DOMAIN UpperToLower THEN UpperToLower[c] ELSE c

Lower(s) == [i \in DOMAIN s |-> LowerChar(s[i])]

Whitespace == { " ", "\t", "\n" }

RECURSIVE LStrip(_)
LStrip(s) == IF s # << >> /\ Head(s) \in Whitespace THEN LStrip(Tail(s)) ELSE s

RECURSIVE RStrip(_)
RStrip(s) ==
    IF s # << >> /\ s[Len(s)] \in Whitespace THEN RStrip(SubSeq(s, 1, Len(s) - 1)) ELSE s

Strip(s) == RStrip(LStrip(s))

(***************************************************************************)
(* pathlib: Path(p).name and Path(p).expanduser() on POSIX paths without   *)
(* "." segments.                                                           *)
(***************************************************************************)
Home == << "/", "h" >>

RECURSIVE DropTrailingSlashes(_)
DropTrailingSlashes(s) ==
    IF s # << >> /\ s[Len(s)] = "/" THEN DropTrailingSlashes(SubSeq(s, 1, Len(s) - 1)) ELSE s

RECURSIVE LastSegment(_)
LastSegment(s) ==
    IF s = << >> \/ s[Len(s)] = "/" THEN << >>
    ELSE LastSegment(SubSeq(s, 1, Len(s) - 1)) \o << s[Len(s)] >>

PathName(p) == LastSegment(DropTrailingSlashes(p))

\* str(Path(p).expanduser()) for a p that starts with "~"; "~user" of an unknown
\* user stays as it is
ExpandUser(p) ==
    IF p = << "~" >> THEN Home
    ELSE IF StartsWith(p, << "~", "/" >>) THEN Home \o DropTrailingSlashes(Tail(p))
    ELSE DropTrailingSlashes(p)

(***************************************************************************)
(* Messages of validate_repository_path / check_repository /               *)
(* check_repositories.                                                     *)
(***************************************************************************)
MsgEmpty == <<"E","m","p","t","y"," ","r","e","p","o","s","i","t","o","r","y"," ","p","a","t","h">>
MsgNotExistPrefix == <<"P","a","t","h"," ","d","o","e","s"," ","n","o","t"," ","e","x","i","s","t",":"," ">>
MsgNotDirPrefix == <<"P","a","t","h"," ","i","s"," ","n","o","t"," ","a"," ","d","i","r","e","c","t","o","r","y",":"," ">>
MsgNoGitPrefix == <<"N","o","t"," ","a"," ","g","i","t"," ","r","e","p","o","s","i","t","o","r","y"," ","(","n","o"," ",".","g","i","t"," ","d","i","r","e","c","t","o","r","y",")",":"," ">>
MsgNotARepo == <<"N","o","t"," ","a"," ","g","i","t"," ","r","e","p","o","s","i","t","o","r","y">>
MsgUnexpectedPrefix == <<"U","n","e","x","p","e","c","t","e","d"," ","e","r","r","o","r",":"," ">>
NeedleNotExist == <<"n","o","t"," ","e","x","i","s","t">>
NameUnknown == <<"u","n","k","n","o","w","n">>

(***************************************************************************)
(* What one check_repository call observes of its surroundings:            *)
(*   kind     what the filesystem holds at the path: "missing", "file",    *)
(*            "dir" (no .git entry) or "gitdir"                            *)
(*   raises   an exception escapes path expansion / validation             *)
(*   open     Repo(repo_path): "ok", "invalid" (InvalidGitRepositoryError) *)
(*            or "error" (any other exception)                             *)
(*   exc      str(e) of whatever exception is raised                       *)
(*   st1..st3 the three successive `git status --porcelain` outputs, each  *)
(*            [raises, lines], a line given by its two-character code      *)
(*   unpushed, upstream   what check_unpushed_commits /                    *)
(*            check_upstream_changes return                                *)
(*   remotes  bool(repo.remotes)                                           *)
(***************************************************************************)
Porcelain(raises, lines) == [raises |-> raises, lines |-> lines]

Observed(kind, raises, open, exc, st1, st2, st3, unpushed, remotes, upstream) ==
    [kind |-> kind, raises |-> raises, open |-> open, exc |-> exc,
     st1 |-> st1, st2 |-> st2, st3 |-> st3,
     unpushed |-> unpushed, remotes |-> remotes, upstream |-> upstream]

(***************************************************************************)
(* GitStatusChecker.validate_repository_path: <<is_valid, error_msg>>.     *)
(***************************************************************************)
validate_repository_path(repo_path, kind) ==
    IF repo_path = << >> THEN << FALSE, MsgEmpty >>
    ELSE IF kind = "missing" THEN << FALSE, MsgNotExistPrefix \o repo_path >>
    ELSE IF kind = "file" THEN << FALSE, MsgNotDirPrefix \o repo_path >>
    ELSE IF kind = "dir" THEN << FALSE, MsgNoGitPrefix \o repo_path >>
    ELSE << TRUE, None >>

\* get_status_priority without its len(statuses) > 1 branch: the first member of
\* priority_order that occurs
get_status_priority_naive(statuses) ==
    IF \E i \in DOMAIN priority_order : priority_order[i] \in Range(statuses)
    THEN priority_order[CHOOSE i \in DOMAIN priority_order :
                           /\ priority_order[i] \in Range(statuses)
                           /\ \A j \in 1..(i - 1) : priority_order[j] \notin Range(statuses)]
    ELSE CLEAN

(***************************************************************************)
(* GitStatusChecker.get_status_priority on a list of statuses.             *)
(***************************************************************************)
get_status_priority(statuses) ==
    IF Len(statuses) > 1
    THEN IF ERROR \in Range(statuses) \/ NOT_A_REPO \in Range(statuses)
         THEN (IF ERROR \in Range(statuses) THEN ERROR ELSE NOT_A_REPO)
         ELSE MULTIPLE
    ELSE IF \E i \in DOMAIN priority_order : priority_order[i] \in Range(statuses)
         THEN priority_order[CHOOSE i \in DOMAIN priority_order :
                                /\ priority_order[i] \in Range(statuses)
                                /\ \A j \in 1..(i - 1) : priority_order[j] \notin Range(statuses)]
         ELSE CLEAN

\* list(result["statuses"]): some listing of the set, each member once
ListingsOf(S) ==
    { s \in [1..Cardinality(S) -> S] : \A i, j \in 1..Cardinality(S) : s[i] = s[j] => i = j }

(***************************************************************************)
(* GitStatusChecker.check_uncommitted_changes / check_untracked_files on   *)
(* one porcelain output; an exception inside either is swallowed there.    *)
(***************************************************************************)
NotUntrackedOrIgnored(code) == code \notin { "??", "!!" }

check_uncommitted_changes(st) ==
    IF st.raises THEN FALSE
    ELSE \E i \in DOMAIN st.lines : NotUntrackedOrIgnored(st.lines[i])

\* len(check_untracked_files(repo)): lines are "XY name" with a non-empty name
check_untracked_files(st) ==
    IF st.raises THEN 0
    ELSE Cardinality({ i \in DOMAIN st.lines : st.lines[i] = "??" })

\* the recount of check_repository over a second porcelain output
uncommitted_count(st) ==
    Cardinality({ i \in DOMAIN st.lines : NotUntrackedOrIgnored(st.lines[i]) })

(***************************************************************************)
(* A result dictionary of check_repository / check_repositories.           *)
(*   error    None or Some(message)                                        *)
(*   details  a function from the keys present to their counts             *)
(***************************************************************************)
\* an empty dict
EmptyDict == [k \in {} |-> 0]

NoDetails == EmptyDict

Result(path, name, statuses, priority_status, error, details) ==
    [path |-> path, name |-> name, statuses |-> statuses,
     priority_status |-> priority_status, error |-> error, details |-> details]

\* the status check_repository derives from the validation message
InvalidPathStatus(error_msg) ==
    IF Contains(Lower(error_msg), NeedleNotExist) THEN ERROR ELSE NOT_A_REPO

\* SubChecks whose except branch leaves priority_status as it was initialised
SubChecks_stale_priority(path, name, o) ==
    LET unc == check_uncommitted_changes(o.st1)
        untracked == check_untracked_files(o.st3)
        upstream == IF o.remotes THEN o.upstream ELSE 0
        statuses ==
            (IF unc THEN { UNCOMMITTED } ELSE {})
              \cup (IF untracked > 0 THEN { UNTRACKED } ELSE {})
              \cup (IF o.unpushed > 0 THEN { UNPUSHED } ELSE {})
              \cup (IF upstream > 0 THEN { UPSTREAM_AVAILABLE } ELSE {})
        keys ==
            (IF unc THEN { "uncommitted_count" } ELSE {})
              \cup (IF untracked > 0 THEN { "untracked_count" } ELSE {})
              \cup (IF o.unpushed > 0 THEN { "unpushed_count" } ELSE {})
              \cup (IF upstream > 0 THEN { "upstream_count" } ELSE {})
        details ==
            [k \in keys |->
                IF k = "uncommitted_count" THEN uncommitted_count(o.st2)
                ELSE IF k = "untracked_count" THEN untracked
                ELSE IF k = "unpushed_count" THEN o.unpushed
                ELSE upstream]
    IN  IF unc /\ o.st2.raises
        THEN Result(path, name, { UNCOMMITTED, ERROR }, CLEAN, Some(o.exc), NoDetails)
        ELSE Result(path, name, statuses,
                    IF statuses # {}
                    THEN get_status_priority(CHOOSE l \in ListingsOf(statuses) : TRUE)
                    ELSE CLEAN,
                    None, details)

\* the sub-checks of check_repository (the try block), o the observations
SubChecks(path, name, o) ==
    LET unc == check_uncommitted_changes(o.st1)
        untracked == check_untracked_files(o.st3)
        upstream == IF o.remotes THEN o.upstream ELSE 0
        statuses ==
            (IF unc THEN { UNCOMMITTED } ELSE {})
              \cup (IF untracked > 0 THEN { UNTRACKED } ELSE {})
              \cup (IF o.unpushed > 0 THEN { UNPUSHED } ELSE {})
              \cup (IF upstream > 0 THEN { UPSTREAM_AVAILABLE } ELSE {})
        keys ==
            (IF unc THEN { "uncommitted_count" } ELSE {})
              \cup (IF untracked > 0 THEN { "untracked_count" } ELSE {})
              \cup (IF o.unpushed > 0 THEN { "unpushed_count" } ELSE {})
              \cup (IF upstream > 0 THEN { "upstream_count" } ELSE {})
        details ==
            [k \in keys |->
                IF k = "uncommitted_count" THEN uncommitted_count(o.st2)
                ELSE IF k = "untracked_count" THEN untracked
                ELSE IF k = "unpushed_count" THEN o.unpushed
                ELSE upstream]
    IN  IF unc /\ o.st2.raises
        THEN \* the second status query raises: the outer except adds ERROR
             Result(path, name, { UNCOMMITTED, ERROR }, ERROR, Some(o.exc), NoDetails)
        ELSE Result(path, name, statuses,
                    IF statuses # {}
                    THEN get_status_priority(CHOOSE l \in ListingsOf(statuses) : TRUE)
                    ELSE CLEAN,
                    None, details)

(***************************************************************************)
(* GitStatusChecker.check_repository, for a call that returns (o.raises    *)
(* is FALSE).                                                              *)
(***************************************************************************)
check_repository(repo_path, o) ==
    LET path == IF repo_path # << >> /\ Head(repo_path) = "~"
                THEN ExpandUser(repo_path) ELSE repo_path
        name == IF path # << >> THEN PathName(path) ELSE NameUnknown
        valid == validate_repository_path(path, o.kind)
    IN  IF ~valid[1]
        THEN Result(path, name, { InvalidPathStatus(valid[2]) },
                    InvalidPathStatus(valid[2]), Some(valid[2]), NoDetails)
        ELSE IF o.open = "invalid"
        THEN Result(path, name, { NOT_A_REPO }, NOT_A_REPO, Some(MsgNotARepo), NoDetails)
        ELSE IF o.open = "error"
        THEN Result(path, name, { ERROR }, ERROR, Some(o.exc), NoDetails)
        ELSE SubChecks(path, name, o)

(***************************************************************************)
(* GitStatusChecker.check_repositories: repo_paths[i] is checked under     *)
(* the observations obs[i].                                                *)
(***************************************************************************)
IsBlank(repo_path) == repo_path = << >> \/ Strip(repo_path) = << >>

SyntheticError(repo_path, exc) ==
    Result(repo_path, IF repo_path # << >> THEN PathName(repo_path) ELSE NameUnknown,
           { ERROR }, ERROR, Some(MsgUnexpectedPrefix \o exc), NoDetails)

\* CheckEntry without the try/except around the check: a raising entry is lost
CheckEntry_unguarded(repo_path, o) ==
    IF IsBlank(repo_path) \/ o.raises THEN << >>
    ELSE << check_repository(Strip(repo_path), o) >>

CheckEntry(repo_path, o) ==
    IF IsBlank(repo_path) THEN << >>
    ELSE IF o.raises THEN << SyntheticError(repo_path, o.exc) >>
    ELSE << check_repository(Strip(repo_path), o) >>

\* check_repositories inserting each result at the front of the list
RECURSIVE check_repositories_prepend(_, _)
check_repositories_prepend(repo_paths, obs) ==
    IF repo_paths = << >> THEN << >>
    ELSE check_repositories_prepend(Tail(repo_paths), Tail(obs))
           \o CheckEntry(Head(repo_paths), Head(obs))

RECURSIVE check_repositories(_, _)
check_repositories(repo_paths, obs) ==
    IF repo_paths = << >> THEN << >>
    ELSE CheckEntry(Head(repo_paths), Head(obs))
           \o check_repositories(Tail(repo_paths), Tail(obs))

\* get_aggregate_status testing only for ERROR among several repositories with issues
get_aggregate_status_error_only(repo_statuses) ==
    LET all_statuses == [i \in DOMAIN repo_statuses |-> repo_statuses[i].priority_status]
        issues == { i \in DOMAIN all_statuses : all_statuses[i] # CLEAN }
    IN  IF Cardinality(issues) = 0 THEN CLEAN
        ELSE IF Cardinality(issues) = 1
        THEN all_statuses[CHOOSE i \in issues : TRUE]
        ELSE IF ERROR \in Range(all_statuses) THEN ERROR
        ELSE MULTIPLE

\* get_aggregate_status looking for an error at the first repository with issues only
get_aggregate_status_first_issue(repo_statuses) ==
    LET all_statuses == [i \in DOMAIN repo_statuses |-> repo_statuses[i].priority_status]
        issues == { i \in DOMAIN all_statuses : all_statuses[i] # CLEAN }
        first == CHOOSE i \in issues : \A j \in issues : i <= j
    IN  IF Cardinality(issues) = 0 THEN CLEAN
        ELSE IF Cardinality(issues) = 1 THEN all_statuses[first]
        ELSE IF all_statuses[first] \in { ERROR, NOT_A_REPO } THEN ERROR
        ELSE MULTIPLE

(***************************************************************************)
(* GitStatusChecker.get_aggregate_status.                                  *)
(***************************************************************************)
get_aggregate_status(repo_statuses) ==
    LET all_statuses == [i \in DOMAIN repo_statuses |-> repo_statuses[i].priority_status]
        issues == { i \in DOMAIN all_statuses : all_statuses[i] # CLEAN }
        repos_with_issues == Cardinality(issues)
    IN  IF repo_statuses = << >> THEN CLEAN
        ELSE IF repos_with_issues = 0 THEN CLEAN
        ELSE IF repos_with_issues = 1
        THEN all_statuses[CHOOSE i \in issues : \A j \in issues : i <= j]
        ELSE IF ERROR \in Range(all_statuses) \/ NOT_A_REPO \in Range(all_statuses)
        THEN ERROR
        ELSE MULTIPLE

(***************************************************************************)
(* STATUS_CLASSES / STATUS_ICONS with get_status_class / get_status_icon.  *)
(* A glyph is written as its code point.                                   *)
(***************************************************************************)
STATUS_CLASSES ==
    [clean |-> "clean", uncommitted |-> "uncommitted", untracked |-> "untracked",
     unpushed |-> "unpushed", upstream_available |-> "upstream",
     multiple |-> "multiple", error |-> "error", not_a_repo |-> "error"]

STATUS_ICONS ==
    [clean |-> "U+2713", uncommitted |-> "U+25CF", untracked |-> "U+25C9",
     unpushed |-> "U+2191", upstream_available |-> "U+2193",
     multiple |-> "U+26A0", error |-> "U+2717", not_a_repo |-> "U+2717"]

get_status_class(status) ==
    IF status \in DOMAIN STATUS_CLASSES THEN STATUS_CLASSES[status] ELSE "unknown"

get_status_icon(status) ==
    IF status \in DOMAIN STATUS_ICONS THEN STATUS_ICONS[status] ELSE "?"

(***************************************************************************)
(* GitMonitor.generate_waybar_output.  The tooltip is the sequence of its  *)
(* lines; a line is kept as the values formatted into it:                  *)
(*   "none"    No repositories configured                                  *)
(*   "clean"   All {n} repositories clean                                  *)
(*   "header"  {k} of {n} repositories need attention:                     *)
(*   "item"      {icon} {name}{detail_str}, details the parenthesised      *)
(*             <<count, word>> pairs                                       *)
(*   "more"      ... and {k} more                                          *)
(***************************************************************************)
TooltipLimit == 10

Line(kind, k, n, icon, name, details) ==
    [kind |-> kind, k |-> k, n |-> n, icon |-> icon, name |-> name, details |-> details]

\* SortKey with MULTIPLE ahead of every other status
SortKey_multiple_first(r) ==
    IF r.priority_status = MULTIPLE THEN 0 - 1 ELSE IndexOf(RepoStatusList, r.priority_status) - 1

\* the sort key of the tooltip: list(RepoStatus).index(r['priority_status'])
SortKey(r) == IndexOf(RepoStatusList, r.priority_status) - 1

\* list.sort(key=...) is stable: equal keys keep their order
RECURSIVE InsertByKey(_, _)
InsertByKey(sorted, r) ==
    IF sorted = << >> THEN << r >>
    ELSE IF SortKey(Head(sorted)) <= SortKey(r)
    THEN << Head(sorted) >> \o InsertByKey(Tail(sorted), r)
    ELSE << r >> \o sorted

RECURSIVE SortByPriority(_)
SortByPriority(repos) ==
    IF repos = << >> THEN << >>
    ELSE InsertByKey(SortByPriority(SubSeq(repos, 1, Len(repos) - 1)), repos[Len(repos)])

RECURSIVE SelectIssues(_)
SelectIssues(repo_statuses) ==
    IF repo_statuses = << >> THEN << >>
    ELSE (IF Head(repo_statuses).priority_status # CLEAN
          THEN << Head(repo_statuses) >> ELSE << >>)
           \o SelectIssues(Tail(repo_statuses))

ItemDetails(repo) ==
    (IF "uncommitted_count" \in DOMAIN repo.details
     THEN << << repo.details["uncommitted_count"], "modified" >> >> ELSE << >>)
      \o (IF "untracked_count" \in DOMAIN repo.details
          THEN << << repo.details["untracked_count"], "untracked" >> >> ELSE << >>)
      \o (IF "unpushed_count" \in DOMAIN repo.details
          THEN << << repo.details["unpushed_count"], "unpushed" >> >> ELSE << >>)

ItemLine(repo) ==
    Line("item", 0, 0, get_status_icon(repo.priority_status), repo.name, ItemDetails(repo))

\* TooltipLines without the line telling how many repositories were left out
TooltipLines_no_overflow(repo_statuses) ==
    LET repos_with_issues == SortByPriority(SelectIssues(repo_statuses))
        k == Len(repos_with_issues)
        shown == SubSeq(repos_with_issues, 1, IF k < TooltipLimit THEN k ELSE TooltipLimit)
    IN  IF k = 0
        THEN << Line("clean", 0, Len(repo_statuses), "", << >>, << >>) >>
        ELSE << Line("header", k, Len(repo_statuses), "", << >>, << >>) >>
               \o [i \in DOMAIN shown |-> ItemLine(shown[i])]

TooltipLines(repo_statuses) ==
    LET repos_with_issues == SortByPriority(SelectIssues(repo_statuses))
        k == Len(repos_with_issues)
        shown == SubSeq(repos_with_issues, 1, IF k < TooltipLimit THEN k ELSE TooltipLimit)
    IN  IF k = 0
        THEN << Line("clean", 0, Len(repo_statuses), "", << >>, << >>) >>
        ELSE << Line("header", k, Len(repo_statuses), "", << >>, << >>) >>
               \o [i \in DOMAIN shown |-> ItemLine(shown[i])]
               \o (IF k > TooltipLimit
                   THEN << Line("more", k - TooltipLimit, 0, "", << >>, << >>) >>
                   ELSE << >>)

\* generate_waybar_output without its early return for an empty list
generate_waybar_output_no_sentinel(repo_statuses) ==
    LET overall_status == get_aggregate_status(repo_statuses)
    IN  [text |-> IF overall_status = CLEAN THEN ""
                  ELSE IF overall_status = MULTIPLE THEN "!"
                  ELSE "U+25CF",
         class |-> get_status_class(overall_status),
         tooltip |-> TooltipLines(repo_statuses)]

generate_waybar_output(repo_statuses) ==
    IF repo_statuses = << >>
    THEN [text |-> "", class |-> "clean",
          tooltip |-> << Line("none", 0, 0, "", << >>, << >>) >>]
    ELSE LET overall_status == get_aggregate_status(repo_statuses)
         IN  [text |-> IF overall_status = CLEAN THEN ""
                       ELSE IF overall_status = MULTIPLE THEN "!"
                       ELSE "U+25CF",
              class |-> get_status_class(overall_status),
              tooltip |-> TooltipLines(repo_statuses)]

(***************************************************************************)
(* GitDropdown.format_repository_list.  An entry is kept as the values     *)
(* formatted into it:                                                      *)
(*   "none"    No repositories configured                                  *)
(*   "entry"   {icon} {name}{detail_str} | {path}, details the             *)
(*             parenthesised <<count, word>> pairs (count 0 for the bare   *)
(*             words "updates available")                                  *)
(***************************************************************************)
Entry(kind, icon, name, details, path) ==
    [kind |-> kind, icon |-> icon, name |-> name, details |-> details, path |-> path]

\* the sort key of the dropdown: list(RepoStatus).index(r['priority_status'])
DropdownKey(r) == IndexOf(RepoStatusList, r.priority_status) - 1

\* sorted(statuses, key=...) is stable: equal keys keep their order
RECURSIVE DropdownInsert(_, _)
DropdownInsert(sorted, r) ==
    IF sorted = << >> THEN << r >>
    ELSE IF DropdownKey(Head(sorted)) <= DropdownKey(r)
    THEN << Head(sorted) >> \o DropdownInsert(Tail(sorted), r)
    ELSE << r >> \o sorted

RECURSIVE sorted_statuses(_)
sorted_statuses(statuses) ==
    IF statuses = << >> THEN << >>
    ELSE DropdownInsert(sorted_statuses(SubSeq(statuses, 1, Len(statuses) - 1)),
                        statuses[Len(statuses)])

\* repo['details'].get(key, 0)
DetailsGet(details, key) == IF key \in DOMAIN details THEN details[key] ELSE 0

EntryDetails(repo) ==
    (IF DetailsGet(repo.details, "uncommitted_count") > 0
     THEN << << repo.details["uncommitted_count"], "modified" >> >> ELSE << >>)
      \o (IF DetailsGet(repo.details, "untracked_count") > 0
          THEN << << repo.details["untracked_count"], "untracked" >> >> ELSE << >>)
      \o (IF DetailsGet(repo.details, "unpushed_count") > 0
          THEN << << repo.details["unpushed_count"], "unpushed" >> >> ELSE << >>)
      \o (IF "upstream_available" \in DOMAIN repo.details
             /\ repo.details["upstream_available"] # 0
          THEN << << 0, "updates available" >> >> ELSE << >>)

format_repository_list(statuses) ==
    IF statuses = << >>
    THEN << Entry("none", "", << >>, << >>, << >>) >>
    ELSE LET sorted == sorted_statuses(statuses)
         IN  [i \in DOMAIN sorted |->
                 Entry("entry", get_status_icon(sorted[i].priority_status), sorted[i].name,
                       EntryDetails(sorted[i]), sorted[i].path)]

(***************************************************************************)
(* State.                                                                  *)
(*                                                                         *)
(* A GitStatusChecker / formatter call and what it returned:               *)
(*   op            the method called last ("none" before the first call)   *)
(*   arg_statuses  get_status_priority's list                              *)
(*   arg_paths, arg_obs   the paths handed to check_repository /           *)
(*                 check_repositories and what each check observes         *)
(*   arg_results   the result list handed to get_aggregate_status /        *)
(*                 generate_waybar_output / format_repository_list         *)
(*   ret_status, ret_results, ret_output, ret_entries   the value returned *)
(*   ret_raised    the call raised instead of returning                    *)
(*   returned      the call has completed                                  *)
(*                                                                         *)
(* The authentication probes of a GitStatusChecker:                        *)
(*   _ssh_agent_available, _gh_cli_available   the memo fields             *)
(*   fetch_method  the method chosen by the last check_upstream_changes    *)
(*   upstream_call the check_upstream_changes call in progress or made     *)
(*                 last: where it is (at), its remote_url, whether the     *)
(*                 method was selected or a probe read raised, how the     *)
(*                 fetch step ended ("none": not reached), how far the     *)
(*                 tracking branch is ahead, whether the count was         *)
(*                 attempted and failed, and the count returned            *)
(*   ssh_runs, gh_runs   history: how often "ssh-add -l" and               *)
(*                 "gh auth status" have been run                          *)
(*                                                                         *)
(* A GitMonitor, its caller (the main thread) and its SIGUSR1 handler:     *)
(*   now           the wall clock, datetime.now()                          *)
(*   config, cache, last_check, lock   the fields of GitMonitor            *)
(*   pc            where the main thread is inside check_repositories      *)
(*   hpc           "blocked" while handle_refresh waits for the lock       *)
(*   ret, outcome  what the last check_repositories call returned, and by  *)
(*                 which path                                              *)
(*   cleared       history: the cache was cleared since the last recorded  *)
(*                 scan                                                    *)
(*   dec           history: the facts read by the scheduling decision of   *)
(*                 the call in progress                                    *)
(*                                                                         *)
(* GitMonitor.run, the driver loop on the main thread:                     *)
(*   rpc           where run() is ("off": run() is not running, the caller *)
(*                 is a test or another script)                            *)
(*   running       self.running                                            *)
(*   loop_interval the local update_interval read at line 247              *)
(*   emitted       the number of JSON objects printed                      *)
(*   out           the JSON object printed last                            *)
(*   exit_status   None while the process runs, else its exit status       *)
(*   cycle_emits   history: None before the loop, else the number of JSON  *)
(*                 objects printed since the cycle in progress (or the one *)
(*                 just completed) began                                   *)
(*   reload        history: what lines 257-271 did in the cycle in         *)
(*                 progress ("none": not reached yet), and the             *)
(*                 configuration reload() returned                         *)
(***************************************************************************)
VARIABLES op, arg_statuses, arg_paths, arg_obs, arg_results,
          ret_status, ret_results, ret_output, ret_entries, ret_raised, returned,
          now, config, cache, last_check, lock, pc, hpc, ret, outcome, cleared, dec,
          rpc, running, loop_interval, emitted, out, exit_status, cycle_emits, reload,
          _ssh_agent_available, _gh_cli_available, fetch_method, ssh_runs, gh_runs,
          upstream_call

pvars == << _ssh_agent_available, _gh_cli_available, fetch_method, ssh_runs, gh_runs,
            upstream_call >>

cvars == << op, arg_statuses, arg_paths, arg_obs, arg_results,
            ret_status, ret_results, ret_output, ret_entries, ret_raised, returned, pvars >>

mvars == << now, config, cache, last_check, lock, pc, hpc, ret, outcome, cleared, dec >>

rvars == << rpc, running, loop_interval, emitted, out, exit_status, cycle_emits, reload >>

vars == << cvars, mvars, rvars >>

(***************************************************************************)
(* Inputs.                                                                 *)
(***************************************************************************)
\* every list a set of raw statuses can be handed over as
StatusLists == UNION { ListingsOf(S) : S \in SUBSET RawStatus }

PathA == << "/", "a" >>
PathPadded == << " ", "/", "a", " " >>
PathNotExist == << "/", "N", "o", "t", " ", "e", "x", "i", "s", "t" >>
PathTilde == << "~", "/", "b" >>
PathBlank == << " ", "\t" >>

PathPool == { << >>, PathBlank, PathA, PathPadded, PathNotExist, PathTilde }

ExcText == << "b", "o", "o", "m" >>

NoLines == Porcelain(FALSE, << >>)

ObsInvalid(kind) ==
    Observed(kind, FALSE, "ok", << >>, NoLines, NoLines, NoLines, 0, FALSE, 0)

ObsRaises == Observed("gitdir", TRUE, "ok", ExcText, NoLines, NoLines, NoLines, 0, FALSE, 0)

ObsOpen(open, exc) ==
    Observed("gitdir", FALSE, open, exc, NoLines, NoLines, NoLines, 0, FALSE, 0)

ObsClean == ObsOpen("ok", << >>)

ObsGit(st1, st2, st3, unpushed, remotes, upstream) ==
    Observed("gitdir", FALSE, "ok", ExcText, st1, st2, st3, unpushed, remotes, upstream)

DirtyLines == Porcelain(FALSE, << " M", "??", "A ", "!!" >>)

ObsDirty == ObsGit(DirtyLines, DirtyLines, DirtyLines, 0, FALSE, 0)

ObsPool ==
    { ObsInvalid("missing"), ObsInvalid("file"), ObsInvalid("dir"),
      ObsRaises, ObsOpen("invalid", << >>), ObsOpen("error", ExcText), ObsOpen("error", << >>),
      ObsClean, ObsDirty,
      ObsGit(NoLines, NoLines, Porcelain(FALSE, << "??" >>), 2, TRUE, 1),
      ObsGit(NoLines, NoLines, NoLines, 0, TRUE, 3),
      ObsGit(NoLines, NoLines, NoLines, 1, FALSE, 3),
      ObsGit(DirtyLines, Porcelain(TRUE, << >>), DirtyLines, 0, FALSE, 0),
      ObsGit(DirtyLines, NoLines, Porcelain(TRUE, << >>), 0, FALSE, 0),
      ObsGit(Porcelain(TRUE, << >>), DirtyLines, DirtyLines, 0, FALSE, 0) }

\* the observations of the checks of a batch scan
ScanObsPool == { ObsInvalid("missing"), ObsInvalid("dir"), ObsRaises, ObsClean, ObsDirty }

SeqsUpTo(S, n) == UNION { [1..m -> S] : m \in 0..n }

\* a result as check_repository builds it for a repository of the given standing
SampleDetails(status) ==
    IF status = UNCOMMITTED THEN [k \in { "uncommitted_count" } |-> 2]
    ELSE IF status = UNTRACKED THEN [k \in { "untracked_count" } |-> 1]
    ELSE IF status = UNPUSHED THEN [k \in { "unpushed_count" } |-> 1]
    ELSE IF status = UPSTREAM_AVAILABLE THEN [k \in { "upstream_count" } |-> 3]
    ELSE IF status = MULTIPLE
    THEN [k \in { "uncommitted_count", "untracked_count" } |-> IF k = "untracked_count" THEN 2 ELSE 1]
    ELSE NoDetails

SampleStatuses(status) ==
    IF status = CLEAN THEN {}
    ELSE IF status = MULTIPLE THEN { UNCOMMITTED, UNTRACKED }
    ELSE { status }

SampleResult(i, status) ==
    Result(<< "/", "r", i >>, << "r", i >>, SampleStatuses(status), status,
           IF status \in { ERROR, NOT_A_REPO } THEN Some(MsgNotARepo) ELSE None,
           SampleDetails(status))

RepoIds == << "1", "2", "3", "4", "5", "6", "7", "8", "9", "a", "b", "c", "d", "e" >>

\* result lists of up to MaxRepos repositories, the i-th named r<i>
ResultLists ==
    { [i \in DOMAIN sts |-> SampleResult(RepoIds[i], sts[i])] : sts \in SeqsUpTo(RepoStatus, MaxRepos) }

\* result lists around the tooltip limit: n repositories, the first c of them clean
LongPattern == << UNCOMMITTED, ERROR, UPSTREAM_AVAILABLE >>

LongResultLists ==
    { [i \in 1..n |-> SampleResult(RepoIds[i],
                                   IF i <= c THEN CLEAN ELSE LongPattern[(i % 3) + 1])] :
        n \in (TooltipLimit - 1)..MaxLong, c \in 0..2 }

(***************************************************************************)
(* GitMonitor: configuration, cache and the scheduling decision.           *)
(***************************************************************************)
Config(update_interval, cache_duration, repositories) ==
    [update_interval |-> update_interval, cache_duration |-> cache_duration,
     repositories |-> repositories]

\* validate() admits update_interval in 1..3600 and cache_duration in 0..60
Configs ==
    { Config(30, 5, << PathA >>), Config(2, 5, << PathA >>),
      Config(30, 0, << PathA >>), Config(30, 5, << >>) }

Min(a, b) == IF a <= b THEN a ELSE b

\* self.cache = {'statuses': ..., 'timestamp': ...}
FilledCache(statuses, timestamp) == [statuses |-> statuses, timestamp |-> timestamp]

\* self.cache.get('statuses', [])
CacheGet(c) == IF "statuses" \in DOMAIN c THEN c.statuses ELSE << >>

\* bool(self.cache)
CacheTruthy(c) == DOMAIN c # {}

\* should_check_repositories comparing with the larger of the two intervals
should_check_repositories_max(lc, cfg, t) ==
    IF lc = None THEN TRUE
    ELSE (t - lc[1]) >= (IF cfg.update_interval >= cfg.cache_duration
                         THEN cfg.update_interval ELSE cfg.cache_duration)

\* GitMonitor.should_check_repositories
should_check_repositories(lc, cfg, t) ==
    IF lc = None THEN TRUE
    ELSE (t - lc[1]) >= Min(cfg.update_interval, cfg.cache_duration)

NoDecision == [made |-> FALSE, recorded |-> FALSE, cleared |-> FALSE, elapsed |-> 0, use_cache |-> FALSE]

(***************************************************************************)
(* The calls on a GitStatusChecker and on the formatter: a call is         *)
(* pending with its arguments, then it returns (or raises).                *)
(***************************************************************************)
NoReload == [result |-> "none", loaded |-> None]

NoOutput == [text |-> "", class |-> "", tooltip |-> << >>]

NoUpstreamCall ==
    [at |-> "returned", remote_url |-> << >>, selected |-> FALSE, raised |-> FALSE,
     fetch |-> "none", ahead |-> 0, counted |-> FALSE, rev_list_failed |-> FALSE, count |-> 0]

Pending(o, sts, paths, obs, results) ==
    /\ op = o
    /\ arg_statuses = sts
    /\ arg_paths = paths
    /\ arg_obs = obs
    /\ arg_results = results
    /\ returned = FALSE
    /\ ret_status = ""
    /\ ret_results = << >>
    /\ ret_output = NoOutput
    /\ ret_entries = << >>
    /\ ret_raised = FALSE
    /\ _ssh_agent_available = None
    /\ _gh_cli_available = None
    /\ fetch_method = None
    /\ ssh_runs = 0
    /\ gh_runs = 0
    /\ upstream_call = NoUpstreamCall

CheckerInputs ==
    \/ \E sts \in StatusLists :
           Pending("get_status_priority", sts, << >>, << >>, << >>)
    \/ \E p \in PathPool, o \in ObsPool :
           Pending("check_repository", << >>, << p >>, << o >>, << >>)
    \/ \E paths \in SeqsUpTo(PathPool, MaxPaths) :
           \E obs \in [DOMAIN paths -> ScanObsPool] :
               Pending("check_repositories", << >>, paths, obs, << >>)
    \/ \E rs \in ResultLists :
           Pending("get_aggregate_status", << >>, << >>, << >>, rs)
    \/ \E rs \in ResultLists \cup LongResultLists :
           Pending("generate_waybar_output", << >>, << >>, << >>, rs)
    \/ \E rs \in ResultLists :
           Pending("format_repository_list", << >>, << >>, << >>, rs)

Returns(o, rstatus, rresults, routput, raised) ==
    /\ op = o
    /\ returned = FALSE
    /\ returned' = TRUE
    /\ ret_status' = rstatus
    /\ ret_results' = rresults
    /\ ret_output' = routput
    /\ ret_raised' = raised
    /\ UNCHANGED << op, arg_statuses, arg_paths, arg_obs, arg_results, ret_entries >>
    /\ UNCHANGED << mvars, rvars, pvars >>

CallGetStatusPriority ==
    Returns("get_status_priority", get_status_priority(arg_statuses), << >>, NoOutput, FALSE)

CallCheckRepository ==
    /\ op = "check_repository"
    /\ IF arg_obs[1].raises
          THEN Returns("check_repository", "", << >>, NoOutput, TRUE)
       ELSE Returns("check_repository", "",
                    << check_repository(arg_paths[1], arg_obs[1]) >>, NoOutput, FALSE)

CallCheckRepositories ==
    Returns("check_repositories", "", check_repositories(arg_paths, arg_obs), NoOutput, FALSE)

CallGetAggregateStatus ==
    Returns("get_aggregate_status", get_aggregate_status(arg_results), << >>, NoOutput, FALSE)

CallGenerateWaybarOutput ==
    Returns("generate_waybar_output", "", << >>, generate_waybar_output(arg_results), FALSE)

CallFormatRepositoryList ==
    /\ op = "format_repository_list"
    /\ returned = FALSE
    /\ returned' = TRUE
    /\ ret_entries' = format_repository_list(arg_results)
    /\ UNCHANGED << op, arg_statuses, arg_paths, arg_obs, arg_results,
                    ret_status, ret_results, ret_output, ret_raised >>
    /\ UNCHANGED << mvars, rvars, pvars >>

\* a GitMonitor right after __init__ and load_config
MonitorInit ==
    /\ now = 0
    /\ config \in Configs
    /\ cache = EmptyDict
    /\ last_check = None
    /\ lock = "free"
    /\ pc = "idle"
    /\ hpc = "idle"
    /\ ret = << >>
    /\ outcome = "none"
    /\ cleared = FALSE
    /\ dec = NoDecision

CheckerNext ==
    \/ CallGetStatusPriority
    \/ CallCheckRepository
    \/ CallCheckRepositories
    \/ CallGetAggregateStatus
    \/ CallGenerateWaybarOutput
    \/ CallFormatRepositoryList

\* DEFAULT_CONFIG: update_interval 30, cache_duration 5, no repositories
DefaultConfig == Config(30, 5, << >>)

\* a call is pending on a GitStatusChecker; the GitMonitor stays as constructed
\* run() has not been called
RunOff ==
    /\ rpc = "off"
    /\ running = TRUE
    /\ loop_interval = 0
    /\ emitted = 0
    /\ out = NoOutput
    /\ exit_status = None
    /\ cycle_emits = None
    /\ reload = NoReload

CheckerInit == CheckerInputs /\ MonitorInit /\ config = DefaultConfig /\ RunOff

CheckerSpec == CheckerInit /\ [][CheckerNext]_vars

(***************************************************************************)
(* The authentication probes and the choice of a fetch method in           *)
(* check_upstream_changes.  What the probe's command does is the           *)
(* environment's: it exits with a code, times out, is not found, or        *)
(* subprocess.run fails with another OSError (the file is not executable,  *)
(* no process or pipe can be created).                                     *)
(***************************************************************************)
ProbeOutcomes == { "rc0", "rc1", "rc2", "timeout", "not_found", "os_error" }

\* a read of a memoized probe property: the memo after it, whether the command was
\* run, whether the read raised, and the value returned
Probe(memo, result, ok) ==
    IF memo # None
    THEN [memo |-> memo, ran |-> FALSE, raised |-> FALSE, value |-> memo[1]]
    ELSE IF result \in { "timeout", "not_found" }
    THEN [memo |-> Some(FALSE), ran |-> TRUE, raised |-> FALSE, value |-> FALSE]
    ELSE IF result = "os_error"
    THEN [memo |-> None, ran |-> TRUE, raised |-> TRUE, value |-> FALSE]
    ELSE [memo |-> Some(result \in ok), ran |-> TRUE, raised |-> FALSE, value |-> result \in ok]

\* exit code 0 or 1 of "ssh-add -l" means an agent is there
ssh_agent_available(memo, result) == Probe(memo, result, { "rc0", "rc1" })

gh_cli_available(memo, result) == Probe(memo, result, { "rc0" })

GithubDomain == << "g", "i", "t", "h", "u", "b", ".", "c", "o", "m" >>
GitAt == << "g", "i", "t", "@" >>
SshScheme == << "s", "s", "h", ":", "/", "/" >>
Http == << "h", "t", "t", "p" >>

\* remote URLs: https://github.com/r, git@github.com:r, git@h:r, ssh://h/r,
\* http://h/r, /srv/r, /srv/http/r, and "" when the URL cannot be read
RemoteUrls ==
    { << "h", "t", "t", "p", "s", ":", "/", "/" >> \o GithubDomain \o << "/", "r" >>,
      GitAt \o GithubDomain \o << ":", "r" >>,
      GitAt \o << "h", ":", "r" >>,
      SshScheme \o << "h", "/", "r" >>,
      Http \o << ":", "/", "/", "h", "/", "r" >>,
      << "/", "s", "r", "v", "/", "r" >>,
      << "/", "s", "r", "v", "/" >> \o Http \o << "/", "r" >>,
      << >> }

NoRead(memo) == [memo |-> memo, ran |-> FALSE, raised |-> FALSE, value |-> FALSE]

\* lines 396-415 of check_upstream_changes: the reads of the two probes and the
\* fetch method chosen (None: no fetch; a read that raises ends the check at
\* line 468)
SelectFetch(remote_url, gh_memo, ssh_memo, gh_outcome, ssh_outcome) ==
    LET gh == gh_cli_available(gh_memo, gh_outcome)
        ssh == ssh_agent_available(ssh_memo, ssh_outcome)
    IN  IF Contains(remote_url, GithubDomain)
        THEN IF gh.raised THEN [gh |-> gh, ssh |-> NoRead(ssh_memo), method |-> None]
             ELSE IF gh.value THEN [gh |-> gh, ssh |-> NoRead(ssh_memo), method |-> Some("gh")]
             ELSE IF ssh.raised THEN [gh |-> gh, ssh |-> ssh, method |-> None]
             ELSE IF ssh.value THEN [gh |-> gh, ssh |-> ssh, method |-> Some("ssh")]
             ELSE [gh |-> gh, ssh |-> ssh, method |-> None]
        ELSE IF ssh.raised THEN [gh |-> NoRead(gh_memo), ssh |-> ssh, method |-> None]
        ELSE IF ssh.value /\ (Contains(remote_url, GitAt) \/ Contains(remote_url, SshScheme))
        THEN [gh |-> NoRead(gh_memo), ssh |-> ssh, method |-> Some("ssh")]
        ELSE IF Contains(remote_url, Http)
        THEN [gh |-> NoRead(gh_memo), ssh |-> ssh, method |-> Some("http")]
        ELSE [gh |-> NoRead(gh_memo), ssh |-> ssh, method |-> None]

\* how the fetch step of lines 418-447 ends: not taken, exit code 0, another exit
\* code, one with an authentication message, TimeoutExpired, another exception
FetchResults == { "skipped", "ok", "nonzero", "auth_failed", "timeout", "exception" }

\* UpstreamCount with an exception of the fetch step reaching line 468
UpstreamCount_fetch_escapes(fetch, ahead, rev_list_fails) ==
    IF fetch \in { "timeout", "exception" }
    THEN [counted |-> FALSE, rev_list_failed |-> FALSE, count |-> 0]
    ELSE [counted |-> TRUE, rev_list_failed |-> rev_list_fails,
          count |-> IF rev_list_fails THEN 0 ELSE ahead]

\* lines 449-464: the commits of the tracking branch that the local branch lacks
\* are counted, however the fetch step ended; GitCommandError gives 0
UpstreamCount(fetch, ahead, rev_list_fails) ==
    [counted |-> TRUE, rev_list_failed |-> rev_list_fails,
     count |-> IF rev_list_fails THEN 0 ELSE ahead]

\* the outcomes a read of a probe can meet: the command runs only without a memo
OutcomesFor(memo) == IF memo = None THEN ProbeOutcomes ELSE { "rc0" }

\* lines 383-415: check_upstream_changes, called for a repository with a tracking
\* branch, reads the probes and chooses the fetch method; a read that raises ends
\* the call at line 468
UC_Select ==
    /\ upstream_call.at = "returned"
    /\ ssh_runs < MaxProbeRuns
    /\ gh_runs < MaxProbeRuns
    /\ \E remote_url \in RemoteUrls, gh_outcome \in OutcomesFor(_gh_cli_available),
          ssh_outcome \in OutcomesFor(_ssh_agent_available) :
           LET sel == SelectFetch(remote_url, _gh_cli_available, _ssh_agent_available,
                                  gh_outcome, ssh_outcome)
               raised == sel.gh.raised \/ sel.ssh.raised
           IN  /\ _gh_cli_available' = sel.gh.memo
               /\ _ssh_agent_available' = sel.ssh.memo
               /\ gh_runs' = gh_runs + (IF sel.gh.ran THEN 1 ELSE 0)
               /\ ssh_runs' = ssh_runs + (IF sel.ssh.ran THEN 1 ELSE 0)
               /\ fetch_method' = sel.method
               /\ upstream_call' =
                    [NoUpstreamCall EXCEPT !.at = IF raised THEN "returned" ELSE "fetch",
                                           !.remote_url = remote_url,
                                           !.selected = ~raised,
                                           !.raised = raised]
    /\ UNCHANGED << op, arg_statuses, arg_paths, arg_obs, arg_results,
                    ret_status, ret_results, ret_output, ret_entries, ret_raised, returned >>
    /\ UNCHANGED << mvars, rvars >>

\* lines 417-447: the fetch step
UC_Fetch ==
    /\ upstream_call.at = "fetch"
    /\ \E fetch \in FetchResults :
           /\ (fetch_method = None) <=> (fetch = "skipped")
           /\ upstream_call' = [upstream_call EXCEPT !.at = "count", !.fetch = fetch]
    /\ UNCHANGED << _ssh_agent_available, _gh_cli_available, fetch_method, ssh_runs, gh_runs >>
    /\ UNCHANGED << op, arg_statuses, arg_paths, arg_obs, arg_results,
                    ret_status, ret_results, ret_output, ret_entries, ret_raised, returned >>
    /\ UNCHANGED << mvars, rvars >>

\* lines 449-470: the count step and the return
UC_Count ==
    /\ upstream_call.at = "count"
    /\ \E ahead \in 0..MaxAhead, rev_list_fails \in BOOLEAN :
           LET cnt == UpstreamCount(upstream_call.fetch, ahead, rev_list_fails)
           IN  upstream_call' =
                   [upstream_call EXCEPT !.at = "returned", !.ahead = ahead,
                                         !.counted = cnt.counted,
                                         !.rev_list_failed = cnt.rev_list_failed,
                                         !.count = cnt.count]
    /\ UNCHANGED << _ssh_agent_available, _gh_cli_available, fetch_method, ssh_runs, gh_runs >>
    /\ UNCHANGED << op, arg_statuses, arg_paths, arg_obs, arg_results,
                    ret_status, ret_results, ret_output, ret_entries, ret_raised, returned >>
    /\ UNCHANGED << mvars, rvars >>

\* a GitStatusChecker after __init__, no probe read yet
ProbeInit ==
    /\ Pending("none", << >>, << >>, << >>, << >>)
    /\ MonitorInit
    /\ config = DefaultConfig
    /\ RunOff

ProbeNext == UC_Select \/ UC_Fetch \/ UC_Count

ProbeSpec == ProbeInit /\ [][ProbeNext]_vars

(***************************************************************************)
(* GitMonitor.check_repositories, called by the main thread.               *)
(* Python runs a signal handler on the main thread, between two of its     *)
(* bytecodes: while handle_refresh is waiting there (hpc = "blocked") the  *)
(* main thread does not advance.                                           *)
(***************************************************************************)
MainRuns == hpc = "idle"

\* the observations of a scan by the monitor's status_checker
MonitorObsPool == { ObsClean, ObsDirty }

\* lines 103-107: the call starts (made by a caller of its own, or by run() at
\* line 236 or line 275); with no repositories it returns [] at once
CR_Enter ==
    /\ MainRuns
    /\ pc = "idle"
    /\ rpc \in { "off", "call0", "call" }
    /\ rpc' = (IF rpc = "call0" THEN "in0" ELSE IF rpc = "call" THEN "in" ELSE rpc)
    /\ UNCHANGED << running, loop_interval, emitted, out, exit_status, cycle_emits, reload >>
    /\ IF config.repositories = << >>
       THEN /\ ret' = << >>
            /\ outcome' = "empty"
            /\ pc' = "idle"
       ELSE /\ outcome' = "none"
            /\ pc' = "decide"
            /\ UNCHANGED ret
    /\ dec' = NoDecision
    /\ UNCHANGED << now, config, cache, last_check, lock, hpc, cleared >>
    /\ UNCHANGED cvars

\* CR_Decide without its test of self.cache
CR_Decide_ignores_cache ==
    /\ MainRuns
    /\ pc = "decide"
    /\ LET use_cache == ~should_check_repositories(last_check, config, now)
       IN  /\ dec' = [made |-> TRUE, recorded |-> last_check # None, cleared |-> cleared,
                      elapsed |-> IF last_check = None THEN 0 ELSE now - last_check[1],
                      use_cache |-> use_cache]
           /\ pc' = IF use_cache THEN "serve" ELSE "acquire"
    /\ UNCHANGED << now, config, cache, last_check, lock, hpc, ret, outcome, cleared >>
    /\ UNCHANGED << cvars, rvars >>

\* line 112: if not self.should_check_repositories() and self.cache
CR_Decide ==
    /\ MainRuns
    /\ pc = "decide"
    /\ LET use_cache == ~should_check_repositories(last_check, config, now) /\ CacheTruthy(cache)
       IN  /\ dec' = [made |-> TRUE, recorded |-> last_check # None, cleared |-> cleared,
                      elapsed |-> IF last_check = None THEN 0 ELSE now - last_check[1],
                      use_cache |-> use_cache]
           /\ pc' = IF use_cache THEN "serve" ELSE "acquire"
    /\ UNCHANGED << now, config, cache, last_check, lock, hpc, ret, outcome, cleared >>
    /\ UNCHANGED << cvars, rvars >>

\* line 114: return self.cache.get('statuses', [])
CR_Serve ==
    /\ MainRuns
    /\ pc = "serve"
    /\ ret' = CacheGet(cache)
    /\ outcome' = "cached"
    /\ pc' = "idle"
    /\ UNCHANGED << now, config, cache, last_check, lock, hpc, cleared, dec >>
    /\ UNCHANGED << cvars, rvars >>

\* line 118: with self.lock
CR_Acquire ==
    /\ MainRuns
    /\ pc = "acquire"
    /\ lock = "free"
    /\ lock' = "main"
    /\ pc' = "scan"
    /\ UNCHANGED << now, config, cache, last_check, hpc, ret, outcome, cleared, dec >>
    /\ UNCHANGED << cvars, rvars >>

\* lines 119-136: the scan returns; cache and last_check are replaced, the lock is
\* released and the fresh list returned
CR_ScanReturns ==
    /\ MainRuns
    /\ pc = "scan"
    /\ \E obs \in [DOMAIN config.repositories -> MonitorObsPool] :
           LET statuses == check_repositories(config.repositories, obs)
           IN  /\ cache' = FilledCache(statuses, now)
               /\ last_check' = Some(now)
               /\ ret' = statuses
    /\ cleared' = FALSE
    /\ lock' = "free"
    /\ outcome' = "scanned"
    /\ pc' = "idle"
    /\ UNCHANGED << now, config, hpc, dec >>
    /\ UNCHANGED << cvars, rvars >>

\* CR_ScanRaises with last_check stamped before the scan is known to have succeeded
CR_ScanRaises_stamps ==
    /\ MainRuns
    /\ pc = "scan"
    /\ lock' = "free"
    /\ last_check' = Some(now)
    /\ pc' = "except"
    /\ UNCHANGED << now, config, cache, hpc, ret, outcome, cleared, dec >>
    /\ UNCHANGED << cvars, rvars >>

\* line 119 raises: the with block releases the lock, control reaches line 138
CR_ScanRaises ==
    /\ MainRuns
    /\ pc = "scan"
    /\ lock' = "free"
    /\ pc' = "except"
    /\ UNCHANGED << now, config, cache, last_check, hpc, ret, outcome, cleared, dec >>
    /\ UNCHANGED << cvars, rvars >>

\* lines 138-141: return self.cache.get('statuses', [])
CR_Except ==
    /\ MainRuns
    /\ pc = "except"
    /\ ret' = CacheGet(cache)
    /\ outcome' = "failed"
    /\ pc' = "idle"
    /\ UNCHANGED << now, config, cache, last_check, lock, hpc, cleared, dec >>
    /\ UNCHANGED << cvars, rvars >>

(***************************************************************************)
(* GitMonitor.handle_refresh, the SIGUSR1 handler: it takes the lock and   *)
(* clears the cache.  It runs on top of the main thread's frame, so when   *)
(* the lock is free it runs to its end before the main thread goes on, and *)
(* when the main thread holds the lock it waits for it.                    *)
(***************************************************************************)
handle_refresh ==
    /\ exit_status = None
    /\ IF lock = "free"
       THEN /\ cache' = EmptyDict
            /\ cleared' = TRUE
            /\ hpc' = "idle"
       ELSE /\ hpc' = "blocked"
            /\ UNCHANGED << cache, cleared >>
    /\ UNCHANGED << now, config, last_check, lock, pc, ret, outcome, dec >>
    /\ UNCHANGED << cvars, rvars >>

\* time passes
Tick ==
    /\ now < MaxTime
    /\ now' = now + 1
    /\ UNCHANGED << config, cache, last_check, lock, pc, hpc, ret, outcome, cleared, dec >>
    /\ UNCHANGED << cvars, rvars >>

MainNext ==
    \/ CR_Enter
    \/ CR_Decide
    \/ CR_Serve
    \/ CR_Acquire
    \/ CR_ScanReturns
    \/ CR_ScanRaises
    \/ CR_Except

Init == Pending("none", << >>, << >>, << >>, << >>) /\ MonitorInit /\ RunOff

Next == MainNext \/ handle_refresh \/ Tick

Spec == Init /\ [][Next]_vars

\* the main thread goes on whenever it can, and
\* a waiting handle_refresh takes the lock once it is free
HandlerResumes == hpc = "blocked" /\ handle_refresh

FairSpec == Spec /\ WF_vars(MainNext) /\ WF_vars(HandlerResumes)

(***************************************************************************)
(* GitMonitor.run, the driver loop.  It calls check_repositories through   *)
(* CR_Enter .. CR_Except above.  The configuration file (whether it        *)
(* exists, its modification time, whether it loads) and the pipe to Waybar *)
(* are the environment's.                                                  *)
(***************************************************************************)
\* the configurations load() can return
RunConfigs ==
    { Config(30, 5, << PathA >>), Config(30, 10, << PathA >>),
      Config(2, 5, << PathA >>), Config(30, 5, << >>),
      Config(30, 5, << PathA, PathTilde >>) }

\* the error objects of lines 293-297 and 304-308
ErrorOutput(kind) ==
    [text |-> "U+2717", class |-> "error", tooltip |-> << Line(kind, 0, 0, "", << >>, << >>) >>]

\* time.sleep(seconds); the clock of the model stops at MaxTime
Slept(seconds) == IF now + seconds <= MaxTime THEN now + seconds ELSE now

CanSleep(seconds) == running => now + seconds <= MaxTime

\* line 233: load_config returns
Run_LoadConfig ==
    /\ MainRuns
    /\ rpc = "load"
    /\ config' \in RunConfigs
    /\ rpc' = "call0"
    /\ UNCHANGED << now, cache, last_check, lock, pc, hpc, ret, outcome, cleared, dec >>
    /\ UNCHANGED << running, loop_interval, emitted, out, exit_status, cycle_emits, reload >>
    /\ UNCHANGED cvars

\* Run_LoadConfigFails leaving the process without printing anything
Run_LoadConfigFails_silent ==
    /\ MainRuns
    /\ rpc = "load"
    /\ exit_status' = Some(1)
    /\ rpc' = "exited"
    /\ UNCHANGED << running, loop_interval, cycle_emits, emitted, out, reload >>
    /\ UNCHANGED mvars
    /\ UNCHANGED cvars

\* line 233 raises ConfigValidationError, lines 302-310: print the error object, sys.exit(1)
Run_LoadConfigFails ==
    /\ MainRuns
    /\ rpc = "load"
    /\ out' = ErrorOutput("configuration_error")
    /\ emitted' = emitted + 1
    /\ exit_status' = Some(1)
    /\ rpc' = "exited"
    /\ UNCHANGED << running, loop_interval, cycle_emits, reload >>
    /\ UNCHANGED mvars
    /\ UNCHANGED cvars

\* lines 237-247: the initial check has returned; its output is printed, or the
\* print raises BrokenPipeError and run() returns
Run_EmitInitial ==
    /\ MainRuns
    /\ rpc = "in0"
    /\ pc = "idle"
    /\ \/ /\ out' = generate_waybar_output(ret)
          /\ emitted' = emitted + 1
          /\ loop_interval' = config.update_interval
          /\ rpc' = "while"
          /\ UNCHANGED exit_status
       \/ /\ rpc' = "returned"
          /\ exit_status' = Some(0)
          /\ UNCHANGED << out, emitted, loop_interval >>
    /\ UNCHANGED << running, cycle_emits, reload >>
    /\ UNCHANGED mvars
    /\ UNCHANGED cvars

\* line 249: while self.running
Run_While ==
    /\ MainRuns
    /\ rpc = "while"
    /\ IF running
       THEN /\ rpc' = "sleep"
            /\ cycle_emits' = Some(0)
            /\ reload' = NoReload
            /\ UNCHANGED exit_status
       ELSE /\ rpc' = "returned"
            /\ exit_status' = Some(0)
            /\ UNCHANGED << cycle_emits, reload >>
    /\ UNCHANGED << running, loop_interval, emitted, out >>
    /\ UNCHANGED mvars
    /\ UNCHANGED cvars

\* line 251: time.sleep(min(update_interval, 5))
Run_Sleep ==
    /\ MainRuns
    /\ rpc = "sleep"
    /\ CanSleep(Min(loop_interval, 5))
    /\ now' = Slept(Min(loop_interval, 5))
    /\ rpc' = "woke"
    /\ UNCHANGED << config, cache, last_check, lock, pc, hpc, ret, outcome, cleared, dec >>
    /\ UNCHANGED << running, loop_interval, emitted, out, exit_status, cycle_emits, reload >>
    /\ UNCHANGED cvars

\* lines 253-254: if not self.running: break
Run_Woke ==
    /\ MainRuns
    /\ rpc = "woke"
    /\ IF running
       THEN /\ rpc' = "mtime"
            /\ UNCHANGED exit_status
       ELSE /\ rpc' = "returned"
            /\ exit_status' = Some(0)
    /\ UNCHANGED << running, loop_interval, emitted, out, cycle_emits, reload >>
    /\ UNCHANGED mvars
    /\ UNCHANGED cvars

\* lines 257-262: the file is missing or its modification time is the one seen
Run_ConfigUnchanged ==
    /\ MainRuns
    /\ rpc = "mtime"
    /\ rpc' = "due"
    /\ UNCHANGED << running, loop_interval, emitted, out, exit_status, cycle_emits >>
    /\ reload' = [result |-> "unchanged", loaded |-> None]
    /\ UNCHANGED mvars
    /\ UNCHANGED cvars

\* lines 263-268: the file changed, reload() returns and the lock is taken
Run_ConfigReloaded ==
    /\ MainRuns
    /\ rpc = "mtime"
    /\ config' \in RunConfigs
    /\ lock = "free"
    /\ lock' = "main"
    /\ rpc' = "clearing"
    /\ UNCHANGED << now, cache, last_check, pc, hpc, ret, outcome, cleared, dec >>
    /\ UNCHANGED << running, loop_interval, emitted, out, exit_status, cycle_emits >>
    /\ reload' = [result |-> "reloaded", loaded |-> Some(config')]
    /\ UNCHANGED cvars

\* line 264 raises, lines 270-271: the failure is logged and the cycle goes on
Run_ConfigReloadFails ==
    /\ MainRuns
    /\ rpc = "mtime"
    /\ rpc' = "due"
    /\ UNCHANGED << running, loop_interval, emitted, out, exit_status, cycle_emits >>
    /\ reload' = [result |-> "failed", loaded |-> None]
    /\ UNCHANGED mvars
    /\ UNCHANGED cvars

\* Run_ClearCache leaving the cache as it is
Run_ClearCache_keeps ==
    /\ MainRuns
    /\ rpc = "clearing"
    /\ lock' = "free"
    /\ rpc' = "due"
    /\ UNCHANGED << now, config, cache, cleared, last_check, pc, hpc, ret, outcome, dec >>
    /\ UNCHANGED << running, loop_interval, emitted, out, exit_status, cycle_emits, reload >>
    /\ UNCHANGED cvars

\* line 269: self.cache.clear(), and the lock is released
Run_ClearCache ==
    /\ MainRuns
    /\ rpc = "clearing"
    /\ cache' = EmptyDict
    /\ cleared' = TRUE
    /\ lock' = "free"
    /\ rpc' = "due"
    /\ UNCHANGED << now, config, last_check, pc, hpc, ret, outcome, dec >>
    /\ UNCHANGED << running, loop_interval, emitted, out, exit_status, cycle_emits, reload >>
    /\ UNCHANGED cvars

\* line 274: if self.should_check_repositories() or not self.cache; when the test
\* fails the body is over and control is back at line 249
Run_Due ==
    /\ MainRuns
    /\ rpc = "due"
    /\ rpc' = (IF should_check_repositories(last_check, config, now) \/ ~CacheTruthy(cache)
               THEN "call" ELSE "while")
    /\ UNCHANGED << running, loop_interval, emitted, out, exit_status, cycle_emits, reload >>
    /\ UNCHANGED mvars
    /\ UNCHANGED cvars

\* lines 276-284: the check has returned; its output is printed, or the print
\* raises BrokenPipeError and the loop is left
Run_Emit ==
    /\ MainRuns
    /\ rpc = "in"
    /\ pc = "idle"
    /\ \/ /\ out' = generate_waybar_output(ret)
          /\ emitted' = emitted + 1
          /\ cycle_emits' = Some(cycle_emits[1] + 1)
          /\ rpc' = "while"
          /\ UNCHANGED exit_status
       \/ /\ rpc' = "returned"
          /\ exit_status' = Some(0)
          /\ UNCHANGED << out, emitted, cycle_emits >>
    /\ UNCHANGED << running, loop_interval, reload >>
    /\ UNCHANGED mvars
    /\ UNCHANGED cvars

\* lines 276-280 raise another exception, lines 289-298: the error object is printed
Run_EmitFails ==
    /\ MainRuns
    /\ rpc = "in"
    /\ pc = "idle"
    /\ out' = ErrorOutput("loop_error")
    /\ emitted' = emitted + 1
    /\ cycle_emits' = Some(cycle_emits[1] + 1)
    /\ rpc' = "error_sleep"
    /\ UNCHANGED << running, loop_interval, exit_status, reload >>
    /\ UNCHANGED mvars
    /\ UNCHANGED cvars

\* line 300: time.sleep(5), then back to line 249
Run_ErrorSleep ==
    /\ MainRuns
    /\ rpc = "error_sleep"
    /\ CanSleep(5)
    /\ now' = Slept(5)
    /\ rpc' = "while"
    /\ UNCHANGED << config, cache, last_check, lock, pc, hpc, ret, outcome, cleared, dec >>
    /\ UNCHANGED << running, loop_interval, emitted, out, exit_status, cycle_emits, reload >>
    /\ UNCHANGED cvars

\* GitMonitor.handle_terminate, the SIGTERM / SIGINT handler
handle_terminate ==
    /\ exit_status = None
    /\ running
    /\ running' = FALSE
    /\ UNCHANGED << rpc, loop_interval, emitted, out, exit_status, cycle_emits, reload >>
    /\ UNCHANGED mvars
    /\ UNCHANGED cvars

\* the steps of the main thread inside run().  Line 114 of check_repositories
\* (CR_Serve) is not among them: run() calls check_repositories at line 275 only
\* when line 274 found a scan due or the cache empty, and neither changes before
\* line 112 tests it again.
RunMain ==
    \/ Run_LoadConfig
    \/ Run_LoadConfigFails
    \/ CR_Enter
    \/ CR_Decide
    \/ CR_Acquire
    \/ CR_ScanReturns
    \/ CR_ScanRaises
    \/ CR_Except
    \/ Run_EmitInitial
    \/ Run_While
    \/ Run_Sleep
    \/ Run_Woke
    \/ Run_ConfigUnchanged
    \/ Run_ConfigReloaded
    \/ Run_ConfigReloadFails
    \/ Run_ClearCache
    \/ Run_Due
    \/ Run_Emit
    \/ Run_EmitFails
    \/ Run_ErrorSleep

\* a GitMonitor right after __init__ (self.config = {} reads as the defaults),
\* run() about to start
RunInit ==
    /\ Pending("none", << >>, << >>, << >>, << >>)
    /\ MonitorInit
    /\ config = DefaultConfig
    /\ rpc = "load"
    /\ running = TRUE
    /\ loop_interval = 0
    /\ emitted = 0
    /\ out = NoOutput
    /\ exit_status = None
    /\ cycle_emits = None
    /\ reload = NoReload

RunNext == RunMain \/ handle_refresh \/ handle_terminate

RunSpec == RunInit /\ [][RunNext]_vars

FairRunSpec == RunSpec /\ WF_vars(RunMain) /\ WF_vars(HandlerResumes)

(***************************************************************************)
(* Properties of the refresh scheduler.                                    *)
(***************************************************************************)
CheckInterval == Min(config.update_interval, config.cache_duration)

\* C3: check_repositories (with a repository configured) serves the cached list
\* without scanning exactly when a scan has been recorded, the cache has not been
\* cleared since and less than min(update_interval, cache_duration) has elapsed
\* since last_check; otherwise it invokes the scanner.
C3_CacheServedExactlyWhenFresh ==
    /\ dec.made =>
         (dec.use_cache <=> (dec.recorded /\ ~dec.cleared /\ dec.elapsed < CheckInterval))
    /\ (pc = "serve" \/ outcome = "cached") => (dec.made /\ dec.use_cache)
    /\ (pc \in { "acquire", "scan", "except" } \/ outcome \in { "scanned", "failed" }) =>
         (dec.made /\ ~dec.use_cache)
    /\ (outcome = "cached" /\ ~cleared) => (CacheTruthy(cache) /\ ret = cache.statuses)

\* update_interval = 30, cache_duration = 5: a request 3 seconds after the recorded
\* scan is served from the cache
C3_Witness ==
    /\ config.update_interval = 30
    /\ config.cache_duration = 5
    /\ outcome = "cached"
    /\ dec.elapsed = 3
    /\ ret # << >>
    /\ ret = CacheGet(cache)

\* C4: once handle_refresh has completed, the next scheduling decision is "due"
\* however little time has passed since the last scan: the call scans.
C4_InvalidateForcesScan ==
    /\ cleared => ~CacheTruthy(cache)
    /\ (dec.made /\ dec.cleared) => ~dec.use_cache
    /\ (dec.made /\ dec.cleared /\ pc # "decide") =>
         (pc \in { "acquire", "scan", "except" } \/ outcome \in { "scanned", "failed" })

C4_Witness ==
    /\ dec.made
    /\ dec.cleared
    /\ dec.recorded
    /\ dec.elapsed = 0
    /\ CheckInterval > 0
    /\ outcome = "scanned"

\* C5: a refresh trigger that arrives while a scan holds the lock waits for the
\* scan to complete and then clears the cache: the scan and the handler both
\* complete, the lock is never held forever.
C5_ScanAndRefreshComplete ==
    /\ (lock = "main") ~> (lock = "free")
    /\ (hpc = "blocked") ~> (hpc = "idle")

\* C6: when the batch scan raises, the lock is released, cache and last_check stay
\* as they were, the call returns the list in the cache (no exception leaves it),
\* and no step ever replaces the cache in part.
C6_FailedScanKeepsCache ==
    [][ /\ (pc = "scan" /\ outcome' # "scanned") =>
              (pc' \in { "scan", "except" } /\ cache' = cache /\ last_check' = last_check)
        /\ (pc = "scan" /\ pc' = "except") => lock' = "free"
        /\ (pc = "except" /\ pc' # "except") =>
              /\ pc' = "idle"
              /\ outcome' = "failed"
              /\ ret' = CacheGet(cache)
              /\ cache' = cache
              /\ last_check' = last_check
              /\ lock' = "free"
        /\ (cache' # cache \/ last_check' # last_check) =>
              \/ cache' = EmptyDict /\ last_check' = last_check
              \/ /\ outcome' = "scanned"
                 /\ DOMAIN cache' = { "statuses", "timestamp" }
                 /\ cache'.statuses = ret'
                 /\ last_check' = Some(now)
      ]_vars

C6_Witness ==
    /\ outcome = "failed"
    /\ pc = "idle"
    /\ lock = "free"
    /\ ret # << >>
    /\ ret = CacheGet(cache)
    /\ last_check # None

\* C20: every change of cache and last_check, and every evaluation of the
\* scheduling decision (should_check_repositories together with the test of the
\* cache), happens while the lock is held: a change is made by the scan holding
\* the lock or by handle_refresh, which takes it for its clear, and the decision
\* is taken by a thread holding it.
C20_DecisionAndMutationsUnderLock ==
    [][ /\ (cache' # cache \/ last_check' # last_check) =>
              \/ lock = "main" /\ pc = "scan"
              \/ lock = "free" /\ cache' = EmptyDict /\ cleared' /\ last_check' = last_check
        /\ (dec'.made /\ dec' # dec) => lock = "main"
      ]_vars

(***************************************************************************)
(* Properties of the classifier, the scanner and the aggregator.           *)
(***************************************************************************)
Done(o) == op = o /\ returned

\* C1: get_status_priority maps a raw status set S to CLEAN if S is empty, to its
\* member if S has one, and otherwise to ERROR if ERROR is in S, else to NOT_A_REPO
\* if NOT_A_REPO is in S, else to MULTIPLE.
C1_StatusPriorityRule ==
    Done("get_status_priority") =>
        LET S == Range(arg_statuses)
        IN  /\ S = {} => ret_status = CLEAN
            /\ Cardinality(S) = 1 => ret_status \in S
            /\ Cardinality(S) >= 2 =>
                 ret_status = (IF ERROR \in S THEN ERROR
                               ELSE IF NOT_A_REPO \in S THEN NOT_A_REPO
                               ELSE MULTIPLE)
            /\ ERROR \in S => ret_status = ERROR

C1_Witness ==
    /\ Done("get_status_priority")
    /\ Cardinality(Range(arg_statuses)) >= 2
    /\ NOT_A_REPO \in Range(arg_statuses)
    /\ ret_status = NOT_A_REPO

\* C2: get_aggregate_status returns CLEAN when no repository is non-clean (or the
\* list is empty), the priority_status of the only non-clean repository when there
\* is exactly one, and with two or more ERROR if any repository is in ERROR or
\* NOT_A_REPO, else MULTIPLE.
C2_AggregateRule ==
    Done("get_aggregate_status") =>
        LET nonclean == { i \in DOMAIN arg_results : arg_results[i].priority_status # CLEAN }
        IN  /\ nonclean = {} => ret_status = CLEAN
            /\ Cardinality(nonclean) = 1 =>
                 \A i \in nonclean : ret_status = arg_results[i].priority_status
            /\ Cardinality(nonclean) >= 2 =>
                 ret_status =
                    (IF \E i \in nonclean : arg_results[i].priority_status \in { ERROR, NOT_A_REPO }
                     THEN ERROR ELSE MULTIPLE)

C2_Witness ==
    /\ Done("get_aggregate_status")
    /\ Len(arg_results) = 3
    /\ arg_results[1].priority_status = UNPUSHED
    /\ arg_results[2].priority_status = CLEAN
    /\ arg_results[3].priority_status = NOT_A_REPO
    /\ ret_status = ERROR

\* the entries of a path list that are neither empty nor all whitespace, by index
AllWhitespace(p) == \A i \in DOMAIN p : p[i] \in Whitespace

RECURSIVE NonBlankFrom(_, _)
NonBlankFrom(paths, i) ==
    IF i > Len(paths) THEN << >>
    ELSE (IF AllWhitespace(paths[i]) THEN << >> ELSE << i >>) \o NonBlankFrom(paths, i + 1)

NonBlankIdx(paths) == NonBlankFrom(paths, 1)

\* the result reports the given entry: its path is the entry, trimmed, or trimmed
\* and expanded
Reports(r, entry) == r.path \in { entry, Strip(entry), ExpandUser(Strip(entry)) }

\* C7: check_repositories returns one result per non-blank entry, in input order;
\* blank entries give no result and an empty list gives an empty list.
C7_OneResultPerNonBlankEntry ==
    Done("check_repositories") =>
        LET idx == NonBlankIdx(arg_paths)
        IN  /\ Len(ret_results) = Len(idx)
            /\ \A i \in DOMAIN idx : Reports(ret_results[i], arg_paths[idx[i]])

C7_Witness ==
    /\ Done("check_repositories")
    /\ arg_paths = << PathTilde, PathBlank >>
    /\ Len(ret_results) = 1
    /\ ret_results[1].path = Home \o << "/", "b" >>

\* C8: no failure of one entry escapes check_repositories: an entry whose check
\* raises is reported with priority_status ERROR, statuses {ERROR} and a non-empty
\* message, and every other entry is still checked and reported.
C8_FailureIsolatedPerEntry ==
    Done("check_repositories") =>
        LET idx == NonBlankIdx(arg_paths)
        IN  /\ ~ret_raised
            /\ Len(ret_results) = Len(idx)
            /\ \A i \in DOMAIN idx :
                 /\ Reports(ret_results[i], arg_paths[idx[i]])
                 /\ arg_obs[idx[i]].raises =>
                      /\ ret_results[i].priority_status = ERROR
                      /\ ret_results[i].statuses = { ERROR }
                      /\ ret_results[i].error # None
                      /\ ret_results[i].error[1] # << >>
                 /\ (~arg_obs[idx[i]].raises /\ arg_obs[idx[i]] = ObsClean) =>
                      ret_results[i].priority_status = CLEAN

C8_Witness ==
    /\ Done("check_repositories")
    /\ Len(arg_paths) = 2
    /\ arg_obs[1].raises
    /\ arg_obs[2] = ObsDirty
    /\ Len(ret_results) = 2
    /\ ret_results[1].priority_status = ERROR
    /\ ret_results[2].priority_status = MULTIPLE

\* C9: for a path that fails validation, check_repository gives ERROR (statuses
\* {ERROR}) exactly when the path does not exist, and NOT_A_REPO (statuses
\* {NOT_A_REPO}) when it exists but is no directory or has no .git entry.
C9_InvalidPathClassification ==
    (Done("check_repository") /\ ~ret_raised /\ arg_paths[1] # << >>
       /\ arg_obs[1].kind # "gitdir") =>
        LET r == ret_results[1]
            expected == IF arg_obs[1].kind = "missing" THEN ERROR ELSE NOT_A_REPO
        IN  r.priority_status = expected /\ r.statuses = { expected }

\* the statuses of the repositories listed by the item lines of a tooltip, in line order
ItemStatuses(tooltip, repo_statuses) ==
    LET items == SelectSeq(tooltip, LAMBDA l : l.kind = "item")
    IN  [i \in DOMAIN items |->
            repo_statuses[CHOOSE j \in DOMAIN repo_statuses :
                              repo_statuses[j].name = items[i].name].priority_status]

\* C10: the per-repository lines of the tooltip are sorted by the classifier's
\* ordering Error, NotARepo, Uncommitted, Untracked, Unpushed, UpstreamAvailable.
C10_TooltipSortedByPriority ==
    Done("generate_waybar_output") =>
        LET sts == ItemStatuses(ret_output.tooltip, arg_results)
        IN  \A i, j \in DOMAIN sts :
                (i < j /\ sts[i] \in Range(priority_order) /\ sts[j] \in Range(priority_order))
                    => IndexOf(priority_order, sts[i]) <= IndexOf(priority_order, sts[j])

\* the permutations of 1..n
Perms(n) == { f \in [1..n -> 1..n] : \A i, j \in 1..n : f[i] = f[j] => i = j }

\* C18: get_aggregate_status does not depend on the order of the list: every
\* permutation of a result list gets the same overall status.
C18_AggregateOrderIndependent ==
    Done("get_aggregate_status") =>
        \A f \in Perms(Len(arg_results)) :
            get_aggregate_status([i \in DOMAIN arg_results |-> arg_results[f[i]]]) = ret_status

C18_Witness ==
    /\ Done("get_aggregate_status")
    /\ Len(arg_results) = 3
    /\ arg_results[1].priority_status = UNCOMMITTED
    /\ arg_results[2].priority_status = ERROR
    /\ arg_results[3].priority_status = CLEAN
    /\ ret_status = get_aggregate_status(<< arg_results[2], arg_results[3], arg_results[1] >>)
    /\ ret_status = ERROR

\* check_repository got as far as its sub-checks
SubChecksRan ==
    /\ Done("check_repository")
    /\ ~ret_raised
    /\ arg_paths[1] # << >>
    /\ arg_obs[1].kind = "gitdir"
    /\ arg_obs[1].open = "ok"

\* C21: the sub-checks of check_repository are fault-isolated: a git query that
\* fails takes away only its own sub-check's status and count, every other
\* sub-check still reports, and the result is not ERROR because of it.
C21_SubChecksFaultIsolated ==
    SubChecksRan =>
        LET r == ret_results[1]
            o == arg_obs[1]
        IN  /\ r.priority_status # ERROR
            /\ ERROR \notin r.statuses
            /\ o.st1.raises =>
                  (UNCOMMITTED \notin r.statuses /\ "uncommitted_count" \notin DOMAIN r.details)
            /\ o.st3.raises =>
                  (UNTRACKED \notin r.statuses /\ "untracked_count" \notin DOMAIN r.details)
            /\ (~o.st3.raises) =>
                  (UNTRACKED \in r.statuses <=> "??" \in Range(o.st3.lines))
            /\ UNPUSHED \in r.statuses <=> o.unpushed > 0
            /\ UPSTREAM_AVAILABLE \in r.statuses <=> (o.remotes /\ o.upstream > 0)

\* the results a completed check_repository / check_repositories call returned
Checked == (Done("check_repository") \/ Done("check_repositories")) /\ ~ret_raised

\* C24: in every result of check_repository and check_repositories, whichever
\* way the result was built, priority_status is what get_status_priority gives
\* for the result's statuses set (CLEAN for the empty set).
C24_PriorityIsRuleOfStatuses ==
    Checked =>
        \A i \in DOMAIN ret_results :
            LET r == ret_results[i]
            IN  /\ r.statuses = {} => r.priority_status = CLEAN
                /\ \A l \in ListingsOf(r.statuses) : r.priority_status = get_status_priority(l)

C24_Witness ==
    /\ SubChecksRan
    /\ arg_obs[1].st2.raises
    /\ ret_results[1].statuses = { UNCOMMITTED, ERROR }
    /\ ret_results[1].priority_status = ERROR

\* C25: a result of check_repository carries an error message exactly when its
\* priority_status is ERROR or NOT_A_REPO or one of its sub-checks failed
\* internally.
C25_ErrorIffFailure ==
    (Done("check_repository") /\ ~ret_raised) =>
        LET r == ret_results[1]
            o == arg_obs[1]
            partial_failure ==
                /\ SubChecksRan
                /\ \/ o.st1.raises
                   \/ (~(check_uncommitted_changes(o.st1) /\ o.st2.raises)) /\ o.st3.raises
        IN  (r.error # None) <=> (r.priority_status \in { ERROR, NOT_A_REPO } \/ partial_failure)

\* C26 as stated: no result of check_repository / check_repositories has
\* priority_status MULTIPLE.
C26_MultipleNeverPerRepository ==
    Checked => \A i \in DOMAIN ret_results : ret_results[i].priority_status # MULTIPLE

\* C26, amended: a result of check_repository / check_repositories has
\* priority_status MULTIPLE exactly when its statuses set has two or more members
\* and neither ERROR nor NOT_A_REPO among them, and the tooltip sort puts the
\* entries of such repositories after those of every other repository listed.
C26_MultipleIsPerRepositoryAndSortsLast ==
    /\ Checked =>
          \A i \in DOMAIN ret_results :
              LET r == ret_results[i]
              IN  r.priority_status = MULTIPLE <=>
                      /\ Cardinality(r.statuses) >= 2
                      /\ ERROR \notin r.statuses
                      /\ NOT_A_REPO \notin r.statuses
    /\ Done("generate_waybar_output") =>
          LET sts == ItemStatuses(ret_output.tooltip, arg_results)
          IN  \A i, j \in DOMAIN sts : (i < j /\ sts[i] = MULTIPLE) => sts[j] = MULTIPLE

C26_Witness ==
    /\ SubChecksRan
    /\ ret_results[1].statuses = { UNCOMMITTED, UNTRACKED }
    /\ ret_results[1].priority_status = MULTIPLE

\* the statuses and the details keys that go together
CountKeys ==
    << << UNCOMMITTED, "uncommitted_count" >>, << UNTRACKED, "untracked_count" >>,
       << UNPUSHED, "unpushed_count" >>, << UPSTREAM_AVAILABLE, "upstream_count" >> >>

\* C29: in a result of check_repository a status and its count agree: the status
\* is in statuses exactly when its count is among the details, and the count is
\* then at least 1, also when the successive status queries of one check see
\* different working trees.
C29_StatusAndCountAgree ==
    (Done("check_repository") /\ ~ret_raised) =>
        LET r == ret_results[1]
        IN  \A i \in DOMAIN CountKeys :
                /\ CountKeys[i][1] \in r.statuses <=> CountKeys[i][2] \in DOMAIN r.details
                /\ CountKeys[i][2] \in DOMAIN r.details => r.details[CountKeys[i][2]] >= 1

(***************************************************************************)
(* Properties of the formatter.                                            *)
(***************************************************************************)
NonClean(repo_statuses) ==
    { i \in DOMAIN repo_statuses : repo_statuses[i].priority_status # CLEAN }

KindCount(tooltip, kind) == Cardinality({ i \in DOMAIN tooltip : tooltip[i].kind = kind })

\* C11: for a non-empty list of N repositories, K of them not clean, the tooltip is
\* one "all N clean" line when K = 0, and otherwise a header "K of N", then
\* min(K, 10) repository lines, then one "K - 10 more" line exactly when K > 10;
\* it never has more than 12 lines.
C11_TooltipStructure ==
    (Done("generate_waybar_output") /\ arg_results # << >>) =>
        LET t == ret_output.tooltip
            N == Len(arg_results)
            K == Cardinality(NonClean(arg_results))
            shown == IF K < 10 THEN K ELSE 10
        IN  /\ Len(t) <= 12
            /\ K = 0 => (Len(t) = 1 /\ t[1].kind = "clean" /\ t[1].n = N)
            /\ K >= 1 =>
                 /\ t[1].kind = "header" /\ t[1].k = K /\ t[1].n = N
                 /\ Len(t) = 1 + shown + (IF K > 10 THEN 1 ELSE 0)
                 /\ \A i \in 2..(1 + shown) : t[i].kind = "item"
                 /\ KindCount(t, "more") = (IF K > 10 THEN 1 ELSE 0)
                 /\ K > 10 => (t[Len(t)].kind = "more" /\ t[Len(t)].k = K - 10)

\* 12 repositories, all with issues: 10 repository lines and a "2 more" line
C11_Witness ==
    /\ Done("generate_waybar_output")
    /\ Len(arg_results) = 12
    /\ Cardinality(NonClean(arg_results)) = 12
    /\ Len(ret_output.tooltip) = 12
    /\ KindCount(ret_output.tooltip, "item") = 10
    /\ ret_output.tooltip[12].kind = "more"
    /\ ret_output.tooltip[12].k = 2

\* the counts of a repository's details that are not zero, in the order
\* uncommitted_count, untracked_count, unpushed_count, upstream_count
DetailOrder == << "uncommitted_count", "untracked_count", "unpushed_count", "upstream_count" >>

NonZeroCounts(details) ==
    LET present == SelectSeq(DetailOrder, LAMBDA k : k \in DOMAIN details /\ details[k] # 0)
    IN  [i \in DOMAIN present |-> details[present[i]]]

\* the repository a tooltip line names
RepoNamed(repo_statuses, name) ==
    repo_statuses[CHOOSE j \in DOMAIN repo_statuses : repo_statuses[j].name = name]

\* C12: each repository line of the tooltip lists, in parentheses, every non-zero
\* count of the repository's details in the order modified, untracked, unpushed,
\* upstream-available; a repository with only upstream_count still gets its clause.
C12_DetailClauseListsAllCounts ==
    Done("generate_waybar_output") =>
        \A i \in DOMAIN ret_output.tooltip :
            LET l == ret_output.tooltip[i]
            IN  l.kind = "item" =>
                  [j \in DOMAIN l.details |-> l.details[j][1]]
                     = NonZeroCounts(RepoNamed(arg_results, l.name).details)

\* C13: the class of the output is the STATUS_CLASSES entry of the overall status
\* and its text the STATUS_ICONS entry (empty when the overall status is CLEAN);
\* a value outside the tables gets "unknown" and "?".
C13_TextAndClassFromLookup ==
    /\ get_status_class("no_such_status") = "unknown"
    /\ get_status_icon("no_such_status") = "?"
    /\ (Done("generate_waybar_output") /\ arg_results # << >>) =>
          LET overall_status == get_aggregate_status(arg_results)
          IN  /\ ret_output.class = STATUS_CLASSES[overall_status]
              /\ ret_output.text =
                    (IF overall_status = CLEAN THEN "" ELSE get_status_icon(overall_status))

\* C14: for an empty result list get_aggregate_status returns CLEAN, and
\* generate_waybar_output gives an empty text, the class "clean" and the single
\* tooltip line "No repositories configured".
C14_EmptyListOutput ==
    /\ (Done("get_aggregate_status") /\ arg_results = << >>) => ret_status = CLEAN
    /\ (Done("generate_waybar_output") /\ arg_results = << >>) =>
          /\ ~ret_raised
          /\ ret_output.text = ""
          /\ ret_output.class = "clean"
          /\ Len(ret_output.tooltip) = 1
          /\ ret_output.tooltip[1].kind = "none"

C14_Witness ==
    /\ Done("generate_waybar_output")
    /\ arg_results = << >>
    /\ ret_output.class = "clean"
    /\ ret_output.tooltip # << >>

(***************************************************************************)
(* Properties of the driver loop.                                          *)
(***************************************************************************)
Ended == rpc \in { "returned", "exited" }

\* C15: after the initial output, every completed cycle of the driver loop prints
\* exactly one JSON object, whether it scanned or found the cache fresh.
C15_OneOutputPerCycle ==
    (rpc = "while" /\ cycle_emits # None) => cycle_emits = Some(1)

\* C16: once handle_terminate has cleared running, the loop starts no new cycle
\* (at line 249 and at line 253 run() returns, with status 0), the check in
\* progress completes, and under fair scheduling run() eventually returns.
C16_CooperativeTermination ==
    /\ [][ (~running /\ rpc \in { "while", "woke" } /\ rpc' # rpc) =>
              (rpc' = "returned" /\ exit_status' = Some(0)) ]_vars
    /\ (~running) ~> Ended

\* C17: when load_config raises ConfigValidationError at startup, run() prints
\* exactly one JSON object, of class "error", scans nothing and exits with status 1.
C17_ConfigFailureExit ==
    rpc = "exited" =>
        /\ emitted = 1
        /\ out.class = "error"
        /\ exit_status = Some(1)
        /\ last_check = None
        /\ cache = EmptyDict
        /\ outcome = "none"
        /\ pc = "idle"

C17_Witness ==
    /\ rpc = "exited"
    /\ exit_status = Some(1)
    /\ emitted = 1
    /\ out = ErrorOutput("configuration_error")

(***************************************************************************)
(* Properties of the authentication probes.                                *)
(***************************************************************************)
\* C22: however the fetch step of check_upstream_changes ends (skipped, exit code
\* 0 or not, authentication failure, timeout, exception), the commits the tracking
\* branch is ahead are still counted, and the count returned never puts ERROR
\* among the statuses of the repository.
C22_CountDespiteFetchOutcome ==
    (upstream_call.at = "returned" /\ upstream_call.fetch \in FetchResults) =>
        /\ upstream_call.counted
        /\ (~upstream_call.rev_list_failed) => upstream_call.count = upstream_call.ahead
        /\ ERROR \notin SubChecks(PathA, << "a" >>,
                                  ObsGit(NoLines, NoLines, NoLines, 0, TRUE,
                                         upstream_call.count)).statuses

C22_Witness ==
    /\ upstream_call.at = "returned"
    /\ upstream_call.fetch = "timeout"
    /\ fetch_method = Some("ssh")
    /\ upstream_call.counted
    /\ upstream_call.count = 2

\* a URL in the scheme http or https
HttpUrl(url) ==
    \/ StartsWith(url, Http \o << ":", "/", "/" >>)
    \/ StartsWith(url, Http \o << "s", ":", "/", "/" >>)

\* C23: the fetch method: for a github.com URL the CLI if its probe is available,
\* else SSH if the agent probe is available, else none; otherwise for an SSH-style
\* URL SSH if the agent probe is available, else none; otherwise for an HTTP(S) URL
\* a fetch is attempted; for any other URL, an empty one included, none.
C23_FetchMethodPolicy ==
    upstream_call.selected =>
        LET url == upstream_call.remote_url
            gh == _gh_cli_available = Some(TRUE)
            ssh == _ssh_agent_available = Some(TRUE)
        IN  fetch_method =
               (IF Contains(url, GithubDomain)
                THEN (IF gh THEN Some("gh") ELSE IF ssh THEN Some("ssh") ELSE None)
                ELSE IF Contains(url, GitAt) \/ Contains(url, SshScheme)
                THEN (IF ssh THEN Some("ssh") ELSE None)
                ELSE IF HttpUrl(url) THEN Some("http")
                ELSE None)

\* C19: each authentication probe runs its command at most once for a
\* GitStatusChecker, whatever the first run's outcome and however many
\* repositories and cycles read it.
C19_ProbeRunsAtMostOnce ==
    /\ ssh_runs <= 1
    /\ gh_runs <= 1

\* the priority_status of the repositories listed by the entries of a dropdown, in
\* entry order
EntryStatuses(entries, statuses) ==
    [i \in DOMAIN entries |->
        statuses[CHOOSE j \in DOMAIN statuses : statuses[j].path = entries[i].path].priority_status]

\* C27: format_repository_list returns one entry per result of a non-empty list,
\* issues first: every repository that is not CLEAN is listed before every
\* repository that is CLEAN.
C27_DropdownIssuesFirst ==
    (Done("format_repository_list") /\ arg_results # << >>) =>
        /\ Len(ret_entries) = Len(arg_results)
        /\ \A i \in DOMAIN arg_results :
               \E j \in DOMAIN ret_entries : ret_entries[j].path = arg_results[i].path
        /\ LET sts == EntryStatuses(ret_entries, arg_results)
           IN  \A i, j \in DOMAIN sts : (sts[i] # CLEAN /\ sts[j] = CLEAN) => i < j

\* run() has just printed the output of a check_repositories call
JustEmitted ==
    /\ rpc = "while"
    /\ emitted > 0
    /\ cycle_emits \in { None, Some(1) }
    /\ out \notin { ErrorOutput("loop_error"), ErrorOutput("configuration_error") }

\* C28: with a non-blank repository path configured, the monitor never prints
\* the "No repositories configured" output, not even after a scan that failed
\* with nothing cached: what it prints stands for a result list with one entry
\* per configured non-blank path.
C28_NoSentinelWhenConfigured ==
    (JustEmitted /\ NonBlankIdx(config.repositories) # << >>) =>
        /\ out.tooltip[1].kind \in { "clean", "header" }
        /\ out.tooltip[1].n = Len(NonBlankIdx(config.repositories))

\* C30: a reload of the configuration that fails changes neither config nor the
\* cache nor last_check, prints nothing and ends nothing: the cycle goes on to the
\* scheduling step of line 274.  A reload that succeeds makes the loaded
\* configuration the active one and clears the cache, so that line 274 of the same
\* cycle calls check_repositories, and that call does not answer from the cache:
\* it scans whatever repositories are configured.
C30_ReloadFrame ==
    [][ /\ (rpc = "mtime" /\ reload'.result = "failed") =>
              /\ config' = config /\ cache' = cache /\ last_check' = last_check
              /\ emitted' = emitted /\ out' = out
              /\ exit_status' = None /\ running' = running
              /\ rpc' = "due"
        /\ (rpc = "mtime" /\ reload'.result = "reloaded") =>
              /\ config' = reload'.loaded[1]
              /\ rpc' = "clearing"
        /\ (rpc = "clearing" /\ rpc' # rpc) =>
              /\ cache' = EmptyDict
              /\ config' = config
              /\ rpc' = "due"
        /\ (rpc = "due" /\ rpc' # rpc /\ reload.result = "reloaded") =>
              /\ config = reload.loaded[1]
              /\ rpc' = "call"
        /\ (rpc = "in" /\ pc = "decide" /\ pc' # pc /\ reload.result = "reloaded") =>
              pc' = "acquire"
        /\ (rpc = "in" /\ pc # "idle" /\ pc' = "idle" /\ reload.result = "reloaded") =>
              /\ outcome' \in { "scanned", "failed" }
              /\ config.repositories # << >>
        /\ (rpc = "call" /\ rpc' = "in" /\ pc' = "idle" /\ reload.result = "reloaded") =>
              /\ outcome' = "empty"
              /\ config.repositories = << >>
      ]_vars

C30_Witness ==
    /\ reload.result = "failed"
    /\ rpc = "call"
    /\ CacheTruthy(cache)
    /\ last_check # None
    /\ emitted = 1
====
